---- MODULE Spec2Model ----
(***************************************************************************)
(* Cash Flow Analytics Engine of retail_pilot_poc.                         *)
(*                                                                         *)
(* The analyzers exist twice in the repository: inline in                  *)
(* app/api/analyze/route.ts (the ones the facade POST calls) and exported  *)
(* from lib/analysis.ts.  Both are modelled; the lib/analysis.ts ones      *)
(* carry the prefix lib_ where the names collide.                          *)
(*                                                                         *)
(* Numbers.  Monetary amounts are exact fixed-point integers in            *)
(* thousandths of a currency unit (1.00 = 1000), so that toFixed(2) is a   *)
(* real rounding (to a multiple of 10).  Quotients the code keeps as       *)
(* numbers (percentage, margin_pct, qty_per_day, gp_per_day) are the exact *)
(* fractions [num, den]; 0/0 is the fraction [num |-> 0, den |-> 0], the   *)
(* NaN of the code.  IEEE rounding error of binary doubles is not          *)
(* modelled.                                                               *)
(***************************************************************************)
EXTENDS Integers, Sequences, FiniteSets, TLC

VARIABLES
    data,       \* the CashFlowData object: a function from the keys present to arrays
    budget,     \* the budget of the call / request body: <<>> (not supplied) or <<b>>
    pc,         \* "idle" | "walk" | "return" | "done"
    called,     \* the function that is running or has returned
    result,     \* [status |-> "none" | "returned" | "threw", value |-> ...]
    ranked,     \* generateReorderPlan: the ranked products
    idx,        \* generateReorderPlan: number of ranked products the loop has taken
    remaining,  \* generateReorderPlan: let remaining
    plan,       \* generateReorderPlan: const plan
    request,    \* facade: the fields of the request body that select the work
    ai,         \* facade: what the external insight service did
    clock,      \* concurrent uploads: Date.now() of the server
    temp_data,  \* concurrent uploads: the session files, sessionId -> content
    uploads,    \* concurrent uploads: each request's position, sessionId, response
    localStorage,  \* browser: the item 'cashflow_session_id', Null when not set
    dash,       \* browser: the state of Dashboard and DataConnection
    view        \* browser: the state of ExecutiveSnapshot and its fetches in flight

\* the state of concurrent uploads
raceVars == <<clock, temp_data, uploads>>

\* the state of the page in the browser
browserVars == <<localStorage, dash, view>>

\* the state of concurrent requests and of the browser, which one analysis call
\* or upload leaves alone
frontVars == <<raceVars, browserVars>>

\* the state of one analysis call or one upload
callVars == <<data, budget, pc, called, result, ranked, idx, remaining, plan, request, ai>>

vars == <<callVars, frontVars>>

----------------------------------------------------------------------------
(* Bounds of the model *)

MaxTx == 3

MaxRefunds == 1

MaxPayouts == 1

MaxProducts == 6

----------------------------------------------------------------------------
(* JavaScript values *)

Null == "null"

\* !x for a string-valued field: null / undefined / "" are falsy
Falsy(x) == x = Null

Frac(n, d) == [num |-> n, den |-> d]

IsNaN(f) == f.den = 0

\* a - b < 0 for two finite fractions with positive denominators
FracLess(a, b) == a.num * b.den < b.num * a.den

FracEq(a, b) == a.num * b.den = b.num * a.den

Min2(a, b) == IF a <= b THEN a ELSE b

Max2(a, b) == IF a >= b THEN a ELSE b

\* Math.ceil(n / d), d > 0
CeilDiv(n, d) == -((-n) \div d)

\* Math.floor(n / d), d > 0
FloorDiv(n, d) == n \div d

\* Number((n / d).toFixed(2)) on thousandths: the nearest multiple of 10,
\* halves away from zero (toFixed rounds the magnitude, picking the larger n)
ToFixed2(n, d) == IF n >= 0 THEN ((2 * n + 10 * d) \div (20 * d)) * 10
                  ELSE -(((2 * (-n) + 10 * d) \div (20 * d)) * 10)

\* array.reduce((sum, x) => sum + f(x), 0) for the numeric fields
RECURSIVE SumField(_, _)
SumField(arr, f) ==
    IF arr = <<>> THEN 0
    ELSE SumField(SubSeq(arr, 1, Len(arr) - 1), f) + arr[Len(arr)][f]

\* array.filter(t => t.payment_type === p)
FilterPayment(arr, p) == SelectSeq(arr, LAMBDA t : t.payment_type = p)

\* const { transactions = [], refunds = [], payouts = [] } = data
GetOrEmpty(d, k) == IF k \in DOMAIN d THEN d[k] ELSE <<>>

Has(d, k) == k \in DOMAIN d

Returned(v) == [status |-> "returned", value |-> v]

Threw == [status |-> "threw", value |-> "TypeError"]

NoResult == [status |-> "none", value |-> "none"]

----------------------------------------------------------------------------
(* Snapshot Calculator *)

\* faulty variant: every row counted, transactions.length
DistinctIdsLen(tx) == Len(tx)

\* new Set(transactions.map(t => t.transaction_id)).size
DistinctIds(tx) == Cardinality({tx[i].transaction_id : i \in DOMAIN tx})

\* faulty variant: cashSales takes every row that is not a card row
SnapshotOfCashOnly(tx, rf, po) ==
    [ totalTransactions |-> DistinctIds(tx),
      itemsSold         |-> SumField(tx, "quantity"),
      grossSales        |-> SumField(tx, "gross_sales"),
      discounts         |-> SumField(tx, "discount"),
      cardSales         |-> SumField(FilterPayment(tx, "card"), "net_sales"),
      cashSales         |-> SumField(SelectSeq(tx, LAMBDA t : t.payment_type # "card"),
                                     "net_sales"),
      processorFees     |-> SumField(po, "processor_fees"),
      refunds           |-> SumField(rf, "refund_amount") ]

\* the object calculateSnapshot / calculateExecutiveSnapshot return
SnapshotOf(tx, rf, po) ==
    [ totalTransactions |-> DistinctIds(tx),
      itemsSold         |-> SumField(tx, "quantity"),
      grossSales        |-> SumField(tx, "gross_sales"),
      discounts         |-> SumField(tx, "discount"),
      cardSales         |-> SumField(FilterPayment(tx, "card"), "net_sales"),
      cashSales         |-> SumField(FilterPayment(tx, "cash"), "net_sales"),
      processorFees     |-> SumField(po, "processor_fees"),
      refunds           |-> SumField(rf, "refund_amount") ]

\* route.ts calculateSnapshot: absent collections default to []
calculateSnapshot(d) ==
    Returned(SnapshotOf(GetOrEmpty(d, "transactions"), GetOrEmpty(d, "refunds"),
                        GetOrEmpty(d, "payouts")))

\* lib/analysis.ts calculateExecutiveSnapshot: no defaults, so a method call on
\* an absent (undefined) collection raises TypeError
calculateExecutiveSnapshot(d) ==
    IF Has(d, "transactions") /\ Has(d, "refunds") /\ Has(d, "payouts")
    THEN Returned(SnapshotOf(d["transactions"], d["refunds"], d["payouts"]))
    ELSE Threw

----------------------------------------------------------------------------
(* Array.prototype.sort: stable; Before(kind, a, b) is "compare(a, b) < 0" *)

Before(kind, a, b) ==
    CASE kind = "amount_desc"  -> b.amount - a.amount < 0
      [] kind = "margin_asc"   -> FracLess(a.margin_pct, b.margin_pct)
      [] kind = "margin_asc_revenue_asc" ->
            \/ FracLess(a.margin_pct, b.margin_pct)
            \/ FracEq(a.margin_pct, b.margin_pct) /\ a.revenue - b.revenue < 0
      [] kind = "gp_desc"      -> FracLess(b.gp_per_day, a.gp_per_day)
      [] kind = "gp_desc_qty_desc" ->
            \/ FracLess(b.gp_per_day, a.gp_per_day)
            \/ FracEq(b.gp_per_day, a.gp_per_day)
                 /\ FracLess(b.qty_per_day, a.qty_per_day)

\* an insertion that puts x before its equals: the sort it gives is not stable
InsertSortedBeforeEquals(kind, s, x) ==
    LET firstNotBefore == IF \E i \in DOMAIN s : ~Before(kind, s[i], x)
                          THEN CHOOSE i \in DOMAIN s :
                                  /\ ~Before(kind, s[i], x)
                                  /\ \A j \in 1..(i - 1) : Before(kind, s[j], x)
                          ELSE Len(s) + 1
    IN  SubSeq(s, 1, firstNotBefore - 1) \o <<x>> \o SubSeq(s, firstNotBefore, Len(s))

\* x goes before the first element it is strictly before, after its equals
InsertSorted(kind, s, x) ==
    LET firstAfter == IF \E i \in DOMAIN s : Before(kind, x, s[i])
                      THEN CHOOSE i \in DOMAIN s :
                              /\ Before(kind, x, s[i])
                              /\ \A j \in 1..(i - 1) : ~Before(kind, x, s[j])
                      ELSE Len(s) + 1
    IN  SubSeq(s, 1, firstAfter - 1) \o <<x>> \o SubSeq(s, firstAfter, Len(s))

RECURSIVE SortBy(_, _)
SortBy(kind, arr) ==
    IF arr = <<>> THEN <<>>
    ELSE InsertSorted(kind, SortBy(kind, SubSeq(arr, 1, Len(arr) - 1)), arr[Len(arr)])

\* array.slice(0, n)
SliceTo(arr, n) == SubSeq(arr, 1, Min2(n, Len(arr)))

\* Map.get / Map.set on a Map kept as the array of its entries in insertion order
MapIndex(m, k) == IF \E i \in DOMAIN m : m[i].key = k
                  THEN CHOOSE i \in DOMAIN m : m[i].key = k
                  ELSE 0

MapSet(m, k, v) ==
    LET i == MapIndex(m, k)
        e == [key |-> k, val |-> v]
    IN  IF i = 0 THEN Append(m, e) ELSE [m EXCEPT ![i] = e]

----------------------------------------------------------------------------
(* Cash-Eater & Margin Analyzer *)

LowMarginLimit == 5

\* lib/analysis.ts: percentage: (amount / total) * 100
PercentageUnguarded(amount, total) == Frac(amount * 100, total)

\* faulty variant: the share is left a ratio, not times 100
PercentageOfAmountOnly(amount, total) == IF total > 0 THEN Frac(amount, total) ELSE Frac(0, 1)

\* route.ts: percentage: total > 0 ? (amount / total) * 100 : 0
Percentage(amount, total) == IF total > 0 THEN Frac(amount * 100, total) ELSE Frac(0, 1)

CashEaterEntries(totalDiscounts, totalRefunds, totalFees, guarded) ==
    LET total == totalDiscounts + totalRefunds + totalFees
        pct(a) == IF guarded THEN Percentage(a, total) ELSE PercentageUnguarded(a, total)
    IN  SortBy("amount_desc",
               << [category |-> "Discounts", amount |-> totalDiscounts,
                   percentage |-> pct(totalDiscounts)],
                  [category |-> "Refunds", amount |-> totalRefunds,
                   percentage |-> pct(totalRefunds)],
                  [category |-> "Processor fees", amount |-> totalFees,
                   percentage |-> pct(totalFees)] >>)

\* transactions.forEach(t => { ... productStats.set(t.product_id, {...}) })
\* skipMissing: route.ts returns early on a falsy product_id / product_name
RECURSIVE MarginStats(_, _)
MarginStats(tx, skipMissing) ==
    IF tx = <<>> THEN <<>>
    ELSE LET m == MarginStats(SubSeq(tx, 1, Len(tx) - 1), skipMissing)
             t == tx[Len(tx)]
             i == MapIndex(m, t.product_id)
             existing == IF i # 0 THEN m[i].val
                         ELSE [revenue |-> 0, gross_profit |-> 0,
                               product_name |-> t.product_name]
         IN  IF skipMissing /\ (Falsy(t.product_id) \/ Falsy(t.product_name))
             THEN m
             ELSE MapSet(m, t.product_id,
                         [revenue      |-> existing.revenue + t.net_sales,
                          gross_profit |-> existing.gross_profit + t.gross_profit,
                          product_name |-> t.product_name])

\* Array.from(productStats.entries()).map(([product_id, stats]) => ({...}))
MarginRows(m) ==
    [i \in DOMAIN m |->
        [product_id   |-> m[i].key,
         product_name |-> m[i].val.product_name,
         revenue      |-> m[i].val.revenue,
         gross_profit |-> m[i].val.gross_profit,
         margin_pct   |-> IF m[i].val.revenue > 0
                          THEN Frac(m[i].val.gross_profit, m[i].val.revenue)
                          ELSE Frac(0, 1)]]

\* route.ts: .filter(p => p.revenue > 0).sort(margin_pct asc).slice(0, 5)
lowMarginProducts(tx) ==
    SliceTo(SortBy("margin_asc",
                   SelectSeq(MarginRows(MarginStats(tx, TRUE)), LAMBDA p : p.revenue > 0)),
            LowMarginLimit)

\* lib/analysis.ts: no row is skipped, no filter; .sort(margin_pct asc || revenue asc)
lib_lowMarginProducts(tx) ==
    SliceTo(SortBy("margin_asc_revenue_asc", MarginRows(MarginStats(tx, FALSE))),
            LowMarginLimit)

\* route.ts analyzeCashEaters; (x || 0) is x on the numbers of the model
analyzeCashEaters(d) ==
    LET transactions == GetOrEmpty(d, "transactions")
        refunds      == GetOrEmpty(d, "refunds")
        payouts      == GetOrEmpty(d, "payouts")
    IN  Returned([cashEaters |-> CashEaterEntries(SumField(transactions, "discount"),
                                                  SumField(refunds, "refund_amount"),
                                                  SumField(payouts, "processor_fees"),
                                                  TRUE),
                  lowMarginProducts |-> lowMarginProducts(transactions)])

\* lib/analysis.ts analyzeCashEaters
lib_analyzeCashEaters(d) ==
    IF Has(d, "transactions") /\ Has(d, "refunds") /\ Has(d, "payouts")
    THEN Returned([cashEaters |-> CashEaterEntries(SumField(d["transactions"], "discount"),
                                                   SumField(d["refunds"], "refund_amount"),
                                                   SumField(d["payouts"], "processor_fees"),
                                                   FALSE),
                   lowMarginProducts |-> lib_lowMarginProducts(d["transactions"])])
    ELSE Threw

----------------------------------------------------------------------------
(* Reorder Plan Optimizer *)

MaxOfDays(tx) == CHOOSE m \in {tx[i].day : i \in DOMAIN tx} :
                    \A i \in DOMAIN tx : tx[i].day <= m

MinOfDays(tx) == CHOOSE m \in {tx[i].day : i \in DOMAIN tx} :
                    \A i \in DOMAIN tx : tx[i].day >= m

\* a window that does not count its first day
DaysBetween(tx) == IF tx = <<>> THEN Frac(-1, 0)
                   ELSE Frac(MaxOfDays(tx) - MinOfDays(tx), 1)

\* (Math.max(...dates) - Math.min(...dates)) / (1000 * 60 * 60 * 24) + 1, with day
\* a whole day number; on no dates it is (-Infinity - Infinity) / ... + 1 = -Infinity,
\* the fraction -1/0
Days(tx) == IF tx = <<>> THEN Frac(-1, 0)
            ELSE Frac(MaxOfDays(tx) - MinOfDays(tx) + 1, 1)

\* a grouping that keeps the unit cost of the first row of a product
RECURSIVE ReorderStatsFirstCogs(_)
ReorderStatsFirstCogs(tx) ==
    IF tx = <<>> THEN <<>>
    ELSE LET m == ReorderStatsFirstCogs(SubSeq(tx, 1, Len(tx) - 1))
             t == tx[Len(tx)]
             i == MapIndex(m, t.product_id)
             existing == IF i # 0 THEN m[i].val
                         ELSE [name |-> t.product_name, qty |-> 0, gross_profit |-> 0,
                               cogs |-> t.cogs]
         IN  MapSet(m, t.product_id,
                    [name         |-> t.product_name,
                     qty          |-> existing.qty + t.quantity,
                     gross_profit |-> existing.gross_profit + t.gross_profit,
                     cogs         |-> existing.cogs])

\* transactions.forEach(t => productStats.set(t.product_id, {...})): no row is skipped
RECURSIVE ReorderStats(_)
ReorderStats(tx) ==
    IF tx = <<>> THEN <<>>
    ELSE LET m == ReorderStats(SubSeq(tx, 1, Len(tx) - 1))
             t == tx[Len(tx)]
             i == MapIndex(m, t.product_id)
             existing == IF i # 0 THEN m[i].val
                         ELSE [name |-> t.product_name, qty |-> 0, gross_profit |-> 0,
                               cogs |-> t.cogs]
         IN  MapSet(m, t.product_id,
                    [name         |-> t.product_name,
                     qty          |-> existing.qty + t.quantity,
                     gross_profit |-> existing.gross_profit + t.gross_profit,
                     cogs         |-> t.cogs])

\* Array.from(productStats.values()).map(p => ({...})).sort(...)
Ranked(tx, kind) ==
    LET m    == ReorderStats(tx)
        days == Days(tx).num
    IN  SortBy(kind,
               [i \in DOMAIN m |->
                   [product_name |-> m[i].val.name,
                    qty_per_day  |-> Frac(m[i].val.qty, days),
                    gp_per_day   |-> Frac(m[i].val.gross_profit, days),
                    cogs         |-> m[i].val.cogs,
                    qty          |-> m[i].val.qty,
                    gp           |-> m[i].val.gross_profit]])

\* the dearest unit cost instead of the cheapest
MaxCogs(rk) == CHOOSE c \in {rk[i].cogs : i \in DOMAIN rk} :
                  \A i \in DOMAIN rk : rk[i].cogs <= c

\* Math.min(...ranked.map(p => p.cogs)), ranked not empty
MinCogs(rk) == CHOOSE c \in {rk[i].cogs : i \in DOMAIN rk} :
                  \A i \in DOMAIN rk : rk[i].cogs >= c

\* a target of seven days of sales instead of five
TargetUnitsOfSevenDays(product) ==
    Max2(1, CeilDiv(product.qty_per_day.num * 7, product.qty_per_day.den))

\* Math.max(1, Math.ceil(product.qty_per_day * 5))
TargetUnits(product) ==
    Max2(1, CeilDiv(product.qty_per_day.num * 5, product.qty_per_day.den))

\* faulty variant: the target is bought whatever is left of the budget
BuyUnitsIgnoringBudget(product, rem) == Max2(0, TargetUnits(product))

\* Math.max(0, Math.min(targetUnits, Math.floor(remaining / product.cogs)))
BuyUnits(product, rem) ==
    Max2(0, Min2(TargetUnits(product), FloorDiv(rem, product.cogs)))

ReorderItemOf(product, buyUnits) ==
    [product_name      |-> product.product_name,
     suggested_qty     |-> buyUnits,
     budget_spend      |-> ToFixed2(buyUnits * product.cogs, 1),
     est_weekly_profit |-> ToFixed2(buyUnits * product.gp, Max2(1, product.qty))]

\* const plan = []; let remaining = budget
NewWalk(b) == [idx |-> 0, remaining |-> b, plan |-> <<>>, stopped |-> FALSE]

\* a walk that takes a product of no unit cost at its target, for nothing
WalkStepTakingFree(rk, w) ==
    LET product  == rk[w.idx + 1]
        buyUnits == IF product.cogs <= 0 THEN TargetUnits(product)
                    ELSE BuyUnits(product, w.remaining)
        rem      == w.remaining - buyUnits * product.cogs
    IN  [idx       |-> w.idx + 1,
         remaining |-> rem,
         plan      |-> IF buyUnits > 0
                       THEN Append(w.plan, ReorderItemOf(product, buyUnits))
                       ELSE w.plan,
         stopped   |-> rem < MinCogs(rk)]

\* one iteration of "for (const product of ranked)"
WalkStep(rk, w) ==
    LET product  == rk[w.idx + 1]
        buyUnits == BuyUnits(product, w.remaining)
        rem      == IF buyUnits > 0 THEN w.remaining - buyUnits * product.cogs
                    ELSE w.remaining
    IN  IF product.cogs <= 0
        THEN [w EXCEPT !.idx = @ + 1]
        ELSE [idx       |-> w.idx + 1,
              remaining |-> rem,
              plan      |-> IF buyUnits > 0
                            THEN Append(w.plan, ReorderItemOf(product, buyUnits))
                            ELSE w.plan,
              stopped   |-> rem < MinCogs(rk)]

WalkOver(rk, w) == w.stopped \/ w.idx >= Len(rk)

RECURSIVE Walk(_, _)
Walk(rk, w) == IF WalkOver(rk, w) THEN w ELSE Walk(rk, WalkStep(rk, w))

\* route.ts generateReorderPlan: .sort((a, b) => b.gp_per_day - a.gp_per_day)
generateReorderPlan(d, b) ==
    Returned(Walk(Ranked(GetOrEmpty(d, "transactions"), "gp_desc"), NewWalk(b)).plan)

\* lib/analysis.ts generateReorderPlan: no default for transactions;
\* .sort((a, b) => b.gp_per_day - a.gp_per_day || b.qty_per_day - a.qty_per_day)
lib_generateReorderPlan(d, b) ==
    IF Has(d, "transactions")
    THEN Returned(Walk(Ranked(d["transactions"], "gp_desc_qty_desc"), NewWalk(b)).plan)
    ELSE Threw

----------------------------------------------------------------------------
(* Analytics Facade: POST /api/analyze *)

DefaultBudget == 500000

\* budget || 500: undefined and 0 are both falsy
BudgetOrDefault(b) == IF b = <<>> THEN DefaultBudget
                      ELSE IF b[1] = 0 THEN DefaultBudget ELSE b[1]

\* a selector that reads question before analysisType
SelectorQuestionFirst(body) ==
    IF body.question # Null THEN body.question ELSE body.analysisType

\* const question = body.analysisType || body.question

Selector(body) == IF ~Falsy(body.analysisType) THEN body.analysisType ELSE body.question

Response(status, body) == [status |-> status, body |-> body]

\* files: the session files of temp_data, sessionId -> parsed JSON
\* outcome: "ok" | "not_ok" | "fail", what fetch() to the Python service does
POST(body, b, files, outcome) ==
    LET question == Selector(body)
        d        == files[body.sessionId]
        snapshot == "snapshot" :> calculateSnapshot(d).value
        ce       == analyzeCashEaters(d).value
        insights == "aiInsights" :> (CASE outcome = "ok"     -> "insights"
                                       [] outcome = "not_ok" -> "unavailable: error status"
                                       [] outcome = "fail"   -> "unavailable: not running")
        reorder  == ("reorderPlan" :> generateReorderPlan(d, BudgetOrDefault(b)).value)
                      @@ ("message" :> [budget |-> b])
    IN  IF Falsy(body.sessionId)
        THEN Response(400, "error" :> "Session ID required")
        ELSE IF Falsy(question)
        THEN Response(400, "error" :> "analysisType or question is required")
        ELSE IF body.sessionId \notin DOMAIN files
        THEN Response(500, "error" :> "Analysis failed")
        ELSE IF question = "cash_eaters"
        THEN Response(200, snapshot @@ ("cashEaters" :> ce.cashEaters)
                             @@ ("lowMarginProducts" :> ce.lowMarginProducts) @@ insights)
        ELSE IF question = "reorder"
        THEN Response(200, IF outcome = "ok" THEN snapshot @@ reorder @@ insights
                           ELSE snapshot @@ reorder)
        ELSE Response(200, snapshot)

\* the earlier analyze handler: it forwards the session data to the Python
\* backend and answers with the backend's JSON, whatever it is
\* pythonResult: the JSON of the backend's answer when the fetch is ok
legacy_POST(body, files, outcome, pythonResult) ==
    IF Falsy(body.sessionId)
    THEN Response(400, "error" :> "Session ID required")
    ELSE IF body.sessionId \notin DOMAIN files
    THEN Response(500, "error" :> "Analysis failed")
    ELSE IF outcome = "ok"
    THEN Response(200, pythonResult)
    ELSE Response(500, "error" :> "Analysis failed")

\* whether the earlier handler gets as far as its fetch()
legacy_CallsAI(body, files) ==
    ~Falsy(body.sessionId) /\ body.sessionId \in DOMAIN files

\* a handler that calls the service for any request of an existing session
CallsAIWithoutSelector(body, files) ==
    ~Falsy(body.sessionId) /\ body.sessionId \in DOMAIN files

\* whether the handler gets as far as a fetch() to the Python service
CallsAI(body, files) ==
    /\ ~Falsy(body.sessionId)
    /\ body.sessionId \in DOMAIN files
    /\ Selector(body) \in {"cash_eaters", "reorder"}

----------------------------------------------------------------------------
(* The datasets and requests of the model *)

Tx(id, day, pid, pname, qty, gross, disc, net, cogs, gp, pay) ==
    [transaction_id |-> id, day |-> day, product_id |-> pid, product_name |-> pname,
     quantity |-> qty, gross_sales |-> gross, discount |-> disc, net_sales |-> net,
     cogs |-> cogs, gross_profit |-> gp, payment_type |-> pay]

Refund(amount) == [refund_id |-> "r1", transaction_id |-> "t1",
                   refund_amount |-> amount, refund_date |-> 1]

Payout(fees) == [payout_date |-> 1, processor_fees |-> fees, net_payout |-> 50000]

SeqsUpTo(S, n) == UNION {[1..k -> S] : k \in 0..n}

Keys == {"transactions", "refunds", "payouts", "products"}

\* each argument is <<>> (key absent) or <<array>> (key present)
Dataset(t, r, p, pr) ==
    LET opt == [transactions |-> t, refunds |-> r, payouts |-> p, products |-> pr]
    IN  [k \in {key \in Keys : opt[key] # <<>>} |-> opt[k][1]]

Optional(S) == {<<>>} \cup {<<x>> : x \in S}

\* line items of one or two sales, paid by card, in cash, otherwise, or unrecorded
SnapshotRows ==
    {Tx(id, 1, "A", "Apple", IF id = "t1" THEN 1 ELSE 2,
        IF id = "t1" THEN 10000 ELSE 25000, IF id = "t1" THEN 0 ELSE 500,
        IF id = "t1" THEN 10000 ELSE 24500, 2000, 3000, pay) :
        id \in {"t1", "t2"}, pay \in {"card", "cash", "voucher", Null}}

SnapshotData ==
    {Dataset(<<tx>>, <<<<>>>>, <<<<>>>>, <<<<>>>>) : tx \in SeqsUpTo(SnapshotRows, MaxTx)}

\* discounts, refunds and fees, with any of the collections absent
DrainRows == {Tx("t1", 1, "A", "Apple", 1, 10000, disc, 10000 - disc, 2000, 3000, "card") :
                 disc \in {0, 500}}

DrainData ==
    {Dataset(t, r, p, pr) :
        t  \in Optional(SeqsUpTo(DrainRows, MaxTx)),
        r  \in Optional(SeqsUpTo({Refund(0), Refund(200)}, MaxRefunds)),
        p  \in Optional(SeqsUpTo({Payout(0), Payout(30)}, MaxPayouts)),
        pr \in Optional({<<>>})}

\* rows of two products and unattributable rows, with no, thin or fat margin
MarginRows3 ==
    {Tx("t1", 1, pp[1], pp[2], 1, ng[1], 0, ng[1], 2000, ng[2], "card") :
        pp \in {<<"A", "Apple">>, <<"B", "Bread">>, <<Null, "Loose">>},
        ng \in {<<0, 0>>, <<10000, 1000>>, <<10000, 5000>>}}

MarginData ==
    {Dataset(<<tx>>, <<<<>>>>, <<<<>>>>, <<<<>>>>) : tx \in SeqsUpTo(MarginRows3, MaxTx)}

\* rows whose product_id or product_name is missing, and rows of one product_id
\* under two names; each row carries a discount
NamedRows ==
    {Tx("t1", 1, pp[1], pp[2], 1, 10500, 500, 10000, 2000, 1000, "card") :
        pp \in {<<"A", "Apple">>, <<"A", "Apricot">>, <<Null, "Loose">>, <<"B", Null>>}}

NamedData ==
    {Dataset(<<tx>>, <<<<>>>>, <<<<>>>>, <<<<>>>>) : tx \in SeqsUpTo(NamedRows, MaxTx)}

\* a catalog of up to MaxProducts products, one row each
CatalogIds == <<"P1", "P2", "P3", "P4", "P5", "P6", "P7", "P8">>

CatalogData ==
    {Dataset(<<[i \in 1..k |->
                   Tx("t1", 1, CatalogIds[i], CatalogIds[i], 1, ng[i][1], 0, ng[i][1],
                      2000, ng[i][2], "card")]>>,
             <<<<>>>>, <<<<>>>>, <<<<>>>>) :
        k \in {Min2(MaxProducts, Len(CatalogIds))},
        ng \in [1..Min2(MaxProducts, Len(CatalogIds)) ->
                   {<<0, 0>>, <<10000, 1000>>, <<20000, 10000>>}]}

\* rows of two products over one or two days, with unit costs of a fraction of a
\* cent, of whole units, and of zero
ReorderRows ==
    {Tx("t1", v[1], pc2[1], pc2[1], v[2], 10000, 0, 10000, pc2[2], v[3], "card") :
        pc2 \in {<<"A", 6>>, <<"A", 2000>>, <<"B", 0>>, <<"B", 1500>>},
        v \in {<<1, 1, 1000>>, <<2, 3, 1000>>}}

ReorderData ==
    {Dataset(<<tx>>, <<<<>>>>, <<<<>>>>, <<<<>>>>) : tx \in SeqsUpTo(ReorderRows, MaxTx)}

Budgets == {<<>>, <<0>>, <<8>>, <<5000>>}

SessionIds == {Null, "s1", "s2"}

\* analysisType as ExecutiveSnapshot sends it, question as AskAssistant sends it
AnalysisTypes == {Null, "snapshot", "reorder"}

Questions == {Null, "cash_eaters", "reorder"}

Outcomes == {"ok", "not_ok", "fail"}

\* what the Python backend may answer to the earlier handler
PythonResults ==
    { "aiInsights" :> "insights",
      ("aiInsights" :> "insights") @@ ("reorderPlan" :> <<>>) }

\* no concurrent request has begun
FrontIdle ==
    /\ clock = 1
    /\ temp_data = <<>>
    /\ uploads = <<>>
    /\ localStorage = Null
    /\ dash = <<>>
    /\ view = <<>>

NoRequest == [sessionId |-> Null, analysisType |-> Null, question |-> Null]

\* temp_data holds the dataset as the file of session s1
Files == "s1" :> data

----------------------------------------------------------------------------
(* State machine: a dataset, and one call of an analyzer or of the facade *)

Init ==
    /\ \/ data \in SnapshotData /\ budget = <<5000>>
       \/ data \in DrainData /\ budget = <<5000>>
       \/ data \in MarginData /\ budget = <<5000>>
       \/ data \in CatalogData /\ budget = <<5000>>
       \/ data \in NamedData /\ budget = <<5000>>
       \/ data \in ReorderData /\ budget \in Budgets
    /\ pc = "idle"
    /\ called = "none"
    /\ result = NoResult
    /\ ranked = <<>>
    /\ idx = 0
    /\ remaining = 0
    /\ plan = <<>>
    /\ request = NoRequest
    /\ ai = "none"
    /\ FrontIdle

Finish(name, r) ==
    /\ pc = "idle"
    /\ pc' = "done"
    /\ called' = name
    /\ result' = r
    /\ UNCHANGED <<data, budget, ranked, idx, remaining, plan, request, ai, frontVars>>

CallCalculateSnapshot == Finish("calculateSnapshot", calculateSnapshot(data))

CallCalculateExecutiveSnapshot ==
    Finish("calculateExecutiveSnapshot", calculateExecutiveSnapshot(data))

CallAnalyzeCashEaters == Finish("analyzeCashEaters", analyzeCashEaters(data))

CallLibAnalyzeCashEaters == Finish("lib_analyzeCashEaters", lib_analyzeCashEaters(data))

\* generateReorderPlan up to the loop: days, productStats, ranked, plan, remaining
ReorderBegin ==
    /\ pc = "idle"
    /\ budget # <<>>
    /\ called' = "generateReorderPlan"
    /\ ranked' = Ranked(GetOrEmpty(data, "transactions"), "gp_desc")
    /\ idx' = NewWalk(budget[1]).idx
    /\ remaining' = NewWalk(budget[1]).remaining
    /\ plan' = NewWalk(budget[1]).plan
    /\ pc' = IF ranked' = <<>> THEN "return" ELSE "walk"
    /\ UNCHANGED <<data, budget, result, request, ai, frontVars>>

LibReorderBegin ==
    /\ pc = "idle"
    /\ budget # <<>>
    /\ called' = "lib_generateReorderPlan"
    /\ IF Has(data, "transactions")
       THEN /\ ranked' = Ranked(data["transactions"], "gp_desc_qty_desc")
            /\ idx' = NewWalk(budget[1]).idx
            /\ remaining' = NewWalk(budget[1]).remaining
            /\ plan' = NewWalk(budget[1]).plan
            /\ pc' = IF ranked' = <<>> THEN "return" ELSE "walk"
            /\ UNCHANGED result
       ELSE /\ result' = Threw
            /\ pc' = "done"
            /\ UNCHANGED <<ranked, idx, remaining, plan>>
    /\ UNCHANGED <<data, budget, request, ai, frontVars>>

\* one iteration of the loop, up to and including its break test
ReorderStep ==
    /\ pc = "walk"
    /\ LET w == WalkStep(ranked, [idx |-> idx, remaining |-> remaining, plan |-> plan,
                                  stopped |-> FALSE])
       IN  /\ idx' = w.idx
           /\ remaining' = w.remaining
           /\ plan' = w.plan
           /\ pc' = IF WalkOver(ranked, w) THEN "return" ELSE "walk"
    /\ UNCHANGED <<data, budget, called, result, ranked, request, ai, frontVars>>

\* return plan
ReorderReturn ==
    /\ pc = "return"
    /\ result' = Returned(plan)
    /\ pc' = "done"
    /\ UNCHANGED <<data, budget, called, ranked, idx, remaining, plan, request, ai, frontVars>>

\* one request to the facade, with the budget of this behaviour in its body
FacadePOST ==
    /\ pc = "idle"
    /\ \E sid \in SessionIds, at \in AnalysisTypes, q \in Questions :
         LET body == [sessionId |-> sid, analysisType |-> at, question |-> q]
         IN  /\ request' = body
             /\ \E outcome \in (IF CallsAI(body, Files) THEN Outcomes ELSE {"none"}) :
                   /\ ai' = outcome
                   /\ result' = Returned(POST(body, budget, Files, outcome))
    /\ called' = "POST"
    /\ pc' = "done"
    /\ UNCHANGED <<data, budget, ranked, idx, remaining, plan, frontVars>>

LegacyFacadePOST ==
    /\ pc = "idle"
    /\ \E sid \in SessionIds, at \in AnalysisTypes :
         LET body == [sessionId |-> sid, analysisType |-> at, question |-> Null]
         IN  /\ request' = body
             /\ \E outcome \in (IF legacy_CallsAI(body, Files) THEN Outcomes ELSE {"none"}),
                   pythonResult \in PythonResults :
                   /\ ai' = outcome
                   /\ result' = Returned(legacy_POST(body, Files, outcome, pythonResult))
    /\ called' = "legacy_POST"
    /\ pc' = "done"
    /\ UNCHANGED <<data, budget, ranked, idx, remaining, plan, frontVars>>

Next ==
    \/ CallCalculateSnapshot
    \/ CallCalculateExecutiveSnapshot
    \/ CallAnalyzeCashEaters
    \/ CallLibAnalyzeCashEaters
    \/ ReorderBegin
    \/ LibReorderBegin
    \/ ReorderStep
    \/ ReorderReturn
    \/ FacadePOST
    \/ LegacyFacadePOST

Spec == Init /\ [][Next]_vars

----------------------------------------------------------------------------
(* CSV upload: the handler of app/api/upload/route.ts and the handler that
   validates each file against its required columns *)

MaxCsvRows == 1

\* the File fields of the form data, in the order Object.entries walks them
UploadKeys == <<"transactions", "refunds", "payouts", "products">>

REQUIRED_COLUMNS ==
    [transactions |-> {"transaction_id", "day", "product_id", "product_name",
                       "quantity", "gross_sales", "discount", "net_sales",
                       "cogs", "gross_profit", "payment_type"},
     refunds      |-> {"refund_id", "transaction_id", "refund_amount", "refund_date"},
     payouts      |-> {"payout_date", "processor_fees", "net_payout"},
     products     |-> {"product_id", "product_name", "cogs"}]

\* a CSV file as Papa.parse sees it: its header line, its number of data rows,
\* the number every cell holds, and whether the parse reports errors
CsvFile(headers, len, cell, parseErrors) ==
    [headers |-> headers, len |-> len, cell |-> cell, parseErrors |-> parseErrors]

\* results.data of Papa.parse with header: true, one object per data row
ParsedRows(file) == [i \in 1..file.len |-> [c \in file.headers |-> file.cell]]

\* validateSchema: <<>> for null, <<error>> for a ValidationError
validateSchema(parsed, requiredColumns, fileName) ==
    IF Len(parsed) = 0
    THEN << [file |-> fileName, errors |-> "File is empty", missing |-> {}] >>
    ELSE LET missing == requiredColumns \ DOMAIN parsed[1]
         IN  IF missing # {}
             THEN << [file |-> fileName, errors |-> "Missing required columns",
                      missing |-> missing] >>
             ELSE <<>>

\* the keys of the form data that carry a file; files[k] is <<>> or <<file>>
Provided(files) == {k \in DOMAIN files : files[k] # <<>>}

\* row.f || 0
FieldOrZero(row, f) == IF f \in DOMAIN row THEN row[f] ELSE 0

\* productMap.get(t.product_id): the last product of that id, <<>> when none
ProductOf(products, t) ==
    LET hits == {i \in DOMAIN products :
                   /\ "product_id" \in DOMAIN products[i]
                   /\ "product_id" \in DOMAIN t
                   /\ products[i]["product_id"] = t["product_id"]}
             \cup {i \in DOMAIN products :
                   /\ "product_id" \notin DOMAIN products[i]
                   /\ "product_id" \notin DOMAIN t}
    IN  IF hits = {} THEN <<>>
        ELSE << products[CHOOSE i \in hits : \A j \in hits : j <= i] >>

\* { ...t, cogs, gross_profit } with cogs of the product master
WithGrossProfit(products, t) ==
    LET product      == ProductOf(products, t)
        cogs         == IF product = <<>> THEN 0 ELSE FieldOrZero(product[1], "cogs")
        gross_profit == FieldOrZero(t, "net_sales") - cogs * FieldOrZero(t, "quantity")
    IN  [c \in DOMAIN t \cup {"cogs", "gross_profit"} |->
            CASE c = "cogs"         -> cogs
              [] c = "gross_profit" -> gross_profit
              [] OTHER              -> t[c]]

UploadResult(status, body, written) ==
    [status |-> status, body |-> body, written |-> written]

\* the summary of an upload response
Summary(d) == [k \in Keys |-> Len(GetOrEmpty(d, k))]

\* app/api/upload/route.ts POST: every provided file is parsed and stored
\* now: Date.now().toString()
upload_POST(files, now) ==
    IF Provided(files) = {}
    THEN UploadResult(400, "error" :> "No files uploaded", <<>>)
    ELSE LET parsed == [k \in Provided(files) |-> ParsedRows(files[k][1])]
             d      == IF {"transactions", "products"} \subseteq DOMAIN parsed
                       THEN [k \in DOMAIN parsed |->
                               IF k = "transactions"
                               THEN [i \in DOMAIN parsed[k] |->
                                       WithGrossProfit(parsed["products"], parsed[k][i])]
                               ELSE parsed[k]]
                       ELSE parsed
         IN  UploadResult(200,
                          ("success" :> TRUE) @@ ("sessionId" :> now)
                             @@ ("summary" :> Summary(d)),
                          << [name |-> now, content |-> d] >>)

\* the errors array of the validating handler, in the order of UploadKeys
RECURSIVE ValidationErrors(_, _)
ValidationErrors(files, i) ==
    IF i > Len(UploadKeys) THEN <<>>
    ELSE LET key  == UploadKeys[i]
             rest == ValidationErrors(files, i + 1)
         IN  IF files[key] = <<>> THEN rest
             ELSE IF files[key][1].parseErrors
             THEN << [file |-> key, errors |-> "CSV parsing errors", missing |-> {}] >>
                    \o rest
             ELSE validateSchema(ParsedRows(files[key][1]), REQUIRED_COLUMNS[key], key)
                    \o rest

\* the validating handler: a file is stored only when validateSchema passes it,
\* and any error answers 400 before anything is written
validating_upload_POST(files, now) ==
    IF Provided(files) = {}
    THEN UploadResult(400, "error" :> "No files uploaded", <<>>)
    ELSE LET errors == ValidationErrors(files, 1)
             d      == [k \in Provided(files) |-> ParsedRows(files[k][1])]
         IN  IF Len(errors) > 0
             THEN UploadResult(400, ("error" :> "Validation errors")
                                       @@ ("details" :> errors), <<>>)
             ELSE UploadResult(200,
                               ("success" :> TRUE) @@ ("sessionId" :> now)
                                  @@ ("summary" :> Summary(d)),
                               << [name |-> now, content |-> d] >>)

\* the files a form field can carry: none, or a CSV with or without one of its
\* required columns, with up to MaxCsvRows rows of cells 2 or of cells 3, parsed
\* with or without errors
FieldFiles(key) ==
    {<<>>}
      \cup { <<CsvFile(REQUIRED_COLUMNS[key], 0, 2, FALSE)>> }
      \cup { <<CsvFile(REQUIRED_COLUMNS[key], n, cell, FALSE)>> :
                n \in 1..MaxCsvRows, cell \in {2, 3} }
      \cup { <<CsvFile(REQUIRED_COLUMNS[key] \ {"product_id", "refund_amount",
                                                "processor_fees"}, n, 2, FALSE)>> :
                n \in 1..MaxCsvRows }
      \cup { <<CsvFile(REQUIRED_COLUMNS[key], MaxCsvRows, 2, TRUE)>> }

Forms == [transactions : FieldFiles("transactions"), refunds : FieldFiles("refunds"),
          payouts : FieldFiles("payouts"), products : FieldFiles("products")]

Times == {"1700000000001", "1700000000002"}

UploadInit ==
    /\ data = <<>>
    /\ budget = <<>>
    /\ pc = "idle"
    /\ called = "none"
    /\ result = NoResult
    /\ ranked = <<>>
    /\ idx = 0
    /\ remaining = 0
    /\ plan = <<>>
    /\ request = <<>>
    /\ ai = "none"
    /\ FrontIdle

\* one upload request handled to its end: the response, and the session file
\* when one is written
UploadPOST ==
    /\ pc = "idle"
    /\ \E files \in Forms, now \in Times :
         LET r == upload_POST(files, now)
         IN  /\ request' = files
             /\ result' = Returned(r)
             /\ data' = IF r.written = <<>> THEN data ELSE r.written[1].content
    /\ pc' = "done"
    /\ called' = "upload_POST"
    /\ UNCHANGED <<budget, ranked, idx, remaining, plan, ai, frontVars>>

ValidatingUploadPOST ==
    /\ pc = "idle"
    /\ \E files \in Forms, now \in Times :
         LET r == validating_upload_POST(files, now)
         IN  /\ request' = files
             /\ result' = Returned(r)
             /\ data' = IF r.written = <<>> THEN data ELSE r.written[1].content
    /\ pc' = "done"
    /\ called' = "validating_upload_POST"
    /\ UNCHANGED <<budget, ranked, idx, remaining, plan, ai, frontVars>>

UploadNext ==
    \/ UploadPOST
    \/ ValidatingUploadPOST

UploadSpec == UploadInit /\ [][UploadNext]_vars

----------------------------------------------------------------------------
(* Concurrent uploads: the tail of the upload handlers, from the session id to
   the response, interleaved at its awaits, and the read of a session file *)

MaxClock == 3

\* the upload requests in flight; each stores its own content
Uploaders == {"u1", "u2"}

\* an upload request before its handler has passed `await mkdir`
NewUpload == [pc |-> "ready", sessionId |-> 0, response |-> <<>>, read |-> <<>>]

UploadRaceInit ==
    /\ data = <<>>
    /\ budget = <<>>
    /\ pc = "idle"
    /\ called = "none"
    /\ result = NoResult
    /\ ranked = <<>>
    /\ idx = 0
    /\ remaining = 0
    /\ plan = <<>>
    /\ request = <<>>
    /\ ai = "none"
    /\ clock = 1
    /\ temp_data = <<>>
    /\ uploads = [u \in Uploaders |-> NewUpload]
    /\ localStorage = Null
    /\ dash = <<>>
    /\ view = <<>>

\* a millisecond passes
Tick ==
    /\ clock < MaxClock
    /\ clock' = clock + 1
    /\ UNCHANGED <<callVars, temp_data, uploads, browserVars>>

\* const sessionId = Date.now().toString(), and writeFile is started
StampSession(u) ==
    /\ uploads[u].pc = "ready"
    /\ uploads' = [uploads EXCEPT ![u].pc = "writing", ![u].sessionId = clock]
    /\ UNCHANGED <<callVars, clock, temp_data, browserVars>>

\* writeFile(join(dataDir, `${sessionId}.json`), ...) completes: the file of
\* that name is created or replaced
WriteSessionFile(u) ==
    /\ uploads[u].pc = "writing"
    /\ temp_data' = (uploads[u].sessionId :> u) @@ temp_data
    /\ uploads' = [uploads EXCEPT ![u].pc = "written"]
    /\ UNCHANGED <<callVars, clock, browserVars>>

\* return NextResponse.json({ success: true, sessionId, summary })
RespondUpload(u) ==
    /\ uploads[u].pc = "written"
    /\ uploads' = [uploads EXCEPT ![u].pc = "responded",
                                  ![u].response = <<uploads[u].sessionId>>]
    /\ UNCHANGED <<callVars, clock, temp_data, browserVars>>

\* the analyze handler reads temp_data/<sessionId>.json for the sessionId the
\* upload returned
ReadSession(u) ==
    /\ uploads[u].pc = "responded"
    /\ uploads[u].read = <<>>
    /\ uploads' = [uploads EXCEPT ![u].read = <<temp_data[uploads[u].response[1]]>>]
    /\ UNCHANGED <<callVars, clock, temp_data, browserVars>>

UploadRaceNext ==
    \/ Tick
    \/ \E u \in Uploaders : StampSession(u)
    \/ \E u \in Uploaders : WriteSessionFile(u)
    \/ \E u \in Uploaders : RespondUpload(u)
    \/ \E u \in Uploaders : ReadSession(u)

UploadRaceSpec == UploadRaceInit /\ [][UploadRaceNext]_vars

----------------------------------------------------------------------------
(* The dashboard page in the browser: Dashboard (app/page.tsx) and its
   DataConnection panel, with the localStorage item 'cashflow_session_id' *)

\* the key of the item is 'cashflow_session_id'; an id left by an earlier visit
StoredBefore == {Null, "s0"}

\* the session ids a successful upload or connect returns
NewSessionIds == {"s1", "s2", "s3"}

\* useState initial values of Dashboard and DataConnection; the page is loaded
\* but the mount effect has not run
NewDash ==
    [mounted |-> FALSE, sessionId |-> Null, hasData |-> FALSE,
     uploading |-> "none", dataStatus |-> "not_loaded", message |-> Null,
     last |-> "load"]

DashboardInit ==
    /\ data = <<>>
    /\ budget = <<>>
    /\ pc = "idle"
    /\ called = "none"
    /\ result = NoResult
    /\ ranked = <<>>
    /\ idx = 0
    /\ remaining = 0
    /\ plan = <<>>
    /\ request = <<>>
    /\ ai = "none"
    /\ clock = 1
    /\ temp_data = <<>>
    /\ uploads = <<>>
    /\ localStorage \in StoredBefore
    /\ dash = NewDash
    /\ view = <<>>

\* Dashboard's mount effect: a stored id becomes the sessionId and hasData
Mount ==
    /\ ~dash.mounted
    /\ dash' = IF localStorage # Null
               THEN [dash EXCEPT !.mounted = TRUE, !.sessionId = localStorage,
                                 !.hasData = TRUE, !.last = "mount"]
               ELSE [dash EXCEPT !.mounted = TRUE, !.last = "mount"]
    /\ UNCHANGED <<callVars, raceVars, localStorage, view>>

\* the page is loaded again: component state starts over, localStorage stays
Reload ==
    /\ dash.mounted
    /\ dash' = NewDash
    /\ UNCHANGED <<callVars, raceVars, localStorage, view>>

\* handleCSVUpload up to its fetch: setUploading(true); setMessage(null)
StartUpload ==
    /\ dash.mounted
    /\ dash.uploading = "none"
    /\ dash' = [dash EXCEPT !.uploading = "csv", !.message = Null,
                            !.last = "start"]
    /\ UNCHANGED <<callVars, raceVars, localStorage, view>>

\* handleCSVUpload after an ok response: setDataStatus, onDataLoaded(sessionId)
\* (handleDataLoaded: setSessionId, setHasData(true)), the success message
UploadSucceeds(sid) ==
    /\ dash.uploading = "csv"
    /\ dash' = [dash EXCEPT !.uploading = "none", !.dataStatus = "rows",
                            !.sessionId = sid, !.hasData = TRUE,
                            !.message = "uploaded", !.last = "upload"]
    /\ UNCHANGED <<callVars, raceVars, localStorage, view>>

\* handleCSVUpload after a response that is not ok, or a failed fetch
UploadFails ==
    /\ dash.uploading = "csv"
    /\ dash' = [dash EXCEPT !.uploading = "none", !.message = "error",
                            !.last = "failure"]
    /\ UNCHANGED <<callVars, raceVars, localStorage, view>>

\* handleAPIConnect up to its fetch
StartConnect ==
    /\ dash.mounted
    /\ dash.uploading = "none"
    /\ dash' = [dash EXCEPT !.uploading = "api", !.message = Null,
                            !.last = "start"]
    /\ UNCHANGED <<callVars, raceVars, localStorage, view>>

\* handleAPIConnect after a successful response: setDataStatus,
\* localStorage.setItem('cashflow_session_id', sessionId), onDataLoaded
ConnectSucceeds(sid) ==
    /\ dash.uploading = "api"
    /\ localStorage' = sid
    /\ dash' = [dash EXCEPT !.uploading = "none", !.dataStatus = "charges",
                            !.sessionId = sid, !.hasData = TRUE,
                            !.message = "connected", !.last = "connect"]
    /\ UNCHANGED <<callVars, raceVars, view>>

\* handleAPIConnect after a response that is not ok or not a success
ConnectFails ==
    /\ dash.uploading = "api"
    /\ dash' = [dash EXCEPT !.uploading = "none", !.message = "error",
                            !.last = "failure"]
    /\ UNCHANGED <<callVars, raceVars, localStorage, view>>

\* the Clear Data button, confirmed: setDataStatus(not loaded),
\* localStorage.removeItem('cashflow_session_id'), the message
ClearData ==
    /\ dash.mounted
    /\ localStorage' = Null
    /\ dash' = [dash EXCEPT !.dataStatus = "not_loaded", !.message = "cleared",
                            !.last = "clear"]
    /\ UNCHANGED <<callVars, raceVars, view>>

\* AskAssistant: a question button is enabled when hasData, and handleAnalyze
\* goes on when it has a sessionId
AnalysisEnabled == dash.hasData /\ dash.sessionId # Null

DashboardNext ==
    \/ Mount
    \/ Reload
    \/ StartUpload
    \/ \E sid \in NewSessionIds : UploadSucceeds(sid)
    \/ UploadFails
    \/ StartConnect
    \/ \E sid \in NewSessionIds : ConnectSucceeds(sid)
    \/ ConnectFails
    \/ ClearData

DashboardSpec == DashboardInit /\ [][DashboardNext]_vars

----------------------------------------------------------------------------
(* ExecutiveSnapshot in the browser: the effect that fetches the snapshot of
   the sessionId prop, and the responses of the fetches still in flight *)

MaxPending == 3

\* the component as first rendered for a sessionId: useState(null),
\* useState(true), and the effect has started its fetch; a snapshot is named by
\* the session it was computed for; failed records that some fetch ended
\* without a snapshot
NewView(sid) ==
    [sessionId |-> sid, snapshot |-> Null, loading |-> TRUE, pending |-> <<sid>>,
     failed |-> FALSE]

\* the sequence without its i-th element
RemoveAt(seq, i) == SubSeq(seq, 1, i - 1) \o SubSeq(seq, i + 1, Len(seq))

SnapshotInit ==
    /\ data = <<>>
    /\ budget = <<>>
    /\ pc = "idle"
    /\ called = "none"
    /\ result = NoResult
    /\ ranked = <<>>
    /\ idx = 0
    /\ remaining = 0
    /\ plan = <<>>
    /\ request = <<>>
    /\ ai = "none"
    /\ clock = 1
    /\ temp_data = <<>>
    /\ uploads = <<>>
    /\ localStorage = Null
    /\ dash = <<>>
    /\ \E sid \in NewSessionIds : view = NewView(sid)

\* handleDataLoaded(newSessionId) with another id: the prop changes and the
\* effect, which depends on [sessionId], starts a fetch; nothing is cancelled
\* and neither snapshot nor loading is reset
SessionChanges(sid) ==
    /\ sid # view.sessionId
    /\ Len(view.pending) < MaxPending
    /\ view' = [view EXCEPT !.sessionId = sid, !.pending = Append(@, sid)]
    /\ UNCHANGED <<callVars, raceVars, localStorage, dash>>

\* a fetch in flight is answered with a snapshot: setSnapshot(data.snapshot),
\* finally setLoading(false)
SnapshotArrives(i) ==
    /\ i \in 1..Len(view.pending)
    /\ view' = [view EXCEPT !.snapshot = view.pending[i], !.loading = FALSE,
                            !.pending = RemoveAt(@, i)]
    /\ UNCHANGED <<callVars, raceVars, localStorage, dash>>

\* a fetch in flight is answered without a snapshot (an error body), or fails:
\* only finally setLoading(false)
NoSnapshotArrives(i) ==
    /\ i \in 1..Len(view.pending)
    /\ view' = [view EXCEPT !.loading = FALSE, !.pending = RemoveAt(@, i),
                            !.failed = TRUE]
    /\ UNCHANGED <<callVars, raceVars, localStorage, dash>>

SnapshotNext ==
    \/ \E sid \in NewSessionIds : SessionChanges(sid)
    \/ \E i \in 1..MaxPending : SnapshotArrives(i)
    \/ \E i \in 1..MaxPending : NoSnapshotArrives(i)

SnapshotSpec == SnapshotInit /\ [][SnapshotNext]_vars

----------------------------------------------------------------------------
(* Properties *)

Transactions == GetOrEmpty(data, "transactions")

IsReorderCall == called \in {"generateReorderPlan", "lib_generateReorderPlan"}

IsCashEatersCall == called \in {"analyzeCashEaters", "lib_analyzeCashEaters"}

IsSnapshotCall == called \in {"calculateSnapshot", "calculateExecutiveSnapshot"}

Done == pc = "done"

ReturnedFrom(names) == Done /\ called \in names /\ result.status = "returned"

\* the sum of a field, adding from the first element on
RECURSIVE Total(_, _)
Total(arr, f) == IF arr = <<>> THEN 0 ELSE arr[1][f] + Total(Tail(arr), f)

\* the whole run of generateReorderPlan agrees with its loop taken step by step
WalkAgreesWithWhole ==
    /\ ReturnedFrom({"generateReorderPlan"})
         => result = generateReorderPlan(data, budget[1])
    /\ Done /\ called = "lib_generateReorderPlan"
         => result = lib_generateReorderPlan(data, budget[1])

\* C1 as claimed: at every point of the walk, and in the plan returned, the
\* budget_spend of the items add up to at most the budget.
C1_SpendWithinBudget ==
    IsReorderCall /\ result.status # "threw"
        => Total(plan, "budget_spend") <= budget[1]

\* C1 amended: after every step of the walk remaining is not negative, that is
\* the unrounded spend budget - remaining is at most the budget; budget_spend is
\* each item's spend rounded to 2 decimals, so the sum of budget_spend is within
\* 0.005 per item of the unrounded spend.
C1_RemainingNeverNegative ==
    IsReorderCall /\ result.status # "threw"
        => /\ remaining >= 0
           /\ remaining <= budget[1]
           /\ Total(plan, "budget_spend") <= (budget[1] - remaining) + 5 * Len(plan)
           /\ Total(plan, "budget_spend") >= (budget[1] - remaining) - 5 * Len(plan)

\* a finished walk that bought two products, one of them fewer units than its
\* target because of what was left of the budget
C1_Witness ==
    /\ ReturnedFrom({"generateReorderPlan", "lib_generateReorderPlan"})
    /\ Len(plan) = 2
    /\ remaining < budget[1]
    /\ \E i \in DOMAIN plan, j \in DOMAIN ranked :
          /\ plan[i].product_name = ranked[j].product_name
          /\ plan[i].suggested_qty < TargetUnits(ranked[j])

\* C2 as claimed: generateReorderPlan returns the empty plan when budget = 0,
\* whatever the dataset, and when the dataset has no transactions, whatever the
\* budget.
C2_EmptyPlan ==
    Done /\ IsReorderCall /\ (budget = <<0>> \/ Transactions = <<>>)
        => result = Returned(<<>>)

\* C2 on the datasets whose transactions key is present (and on every dataset for
\* route.ts, which defaults the key to [])
C2_EmptyPlanWhenReturned ==
    ReturnedFrom({"generateReorderPlan", "lib_generateReorderPlan"})
      /\ (budget = <<0>> \/ Transactions = <<>>)
        => result.value = <<>>

C2_RouteAlwaysReturns ==
    Done /\ called = "generateReorderPlan" => result.status = "returned"

\* C3 as claimed: a reorder request to the facade with budget 0 answers with
\* reorderPlan = [].
C3_FacadeZeroBudget ==
    Done /\ called = "POST" /\ result.value.status = 200
      /\ Selector(request) = "reorder" /\ budget = <<0>>
        => result.value.body["reorderPlan"] = <<>>

\* the facade runs the optimizer with the supplied budget unless it is 0 or absent
C3_FacadeBudgetUsed ==
    Done /\ called = "POST" /\ result.value.status = 200
      /\ Selector(request) = "reorder" /\ budget # <<>> /\ budget # <<0>>
        => result.value.body["reorderPlan"] = generateReorderPlan(data, budget[1]).value

\* a + b on fractions
FracAdd(a, b) == IF a.den = b.den THEN Frac(a.num + b.num, a.den)
                 ELSE Frac(a.num * b.den + b.num * a.den, a.den * b.den)

\* totalDiscounts + totalRefunds + totalFees of the dataset
DrainTotal == Total(Transactions, "discount")
                + Total(GetOrEmpty(data, "refunds"), "refund_amount")
                + Total(GetOrEmpty(data, "payouts"), "processor_fees")

CashEatersReturned == result.value.cashEaters

LowMarginReturned == result.value.lowMarginProducts

\* C4 as claimed: on a zero total analyzeCashEaters returns three entries of
\* amount 0 and percentage exactly 0, and no percentage is ever NaN.
C4_ZeroTotalGuarded ==
    ReturnedFrom({"analyzeCashEaters", "lib_analyzeCashEaters"})
        => /\ \A i \in DOMAIN CashEatersReturned :
                  ~IsNaN(CashEatersReturned[i].percentage)
           /\ DrainTotal = 0
                => /\ Len(CashEatersReturned) = 3
                   /\ \A i \in DOMAIN CashEatersReturned :
                         /\ CashEatersReturned[i].amount = 0
                         /\ CashEatersReturned[i].percentage = Frac(0, 1)

\* C4 holds of the analyzeCashEaters of route.ts
C4_RouteZeroTotalGuarded ==
    ReturnedFrom({"analyzeCashEaters"})
        => /\ \A i \in DOMAIN CashEatersReturned :
                  ~IsNaN(CashEatersReturned[i].percentage)
           /\ DrainTotal = 0
                => /\ Len(CashEatersReturned) = 3
                   /\ \A i \in DOMAIN CashEatersReturned :
                         /\ CashEatersReturned[i].amount = 0
                         /\ CashEatersReturned[i].percentage = Frac(0, 1)

\* C5: whenever the total of discounts, refunds and fees is > 0, each of the three
\* percentages is amount / total * 100 and the three add up to 100.
C5_PercentagesSumTo100 ==
    ReturnedFrom({"analyzeCashEaters", "lib_analyzeCashEaters"}) /\ DrainTotal > 0
        => LET ce == CashEatersReturned
           IN  /\ Len(ce) = 3
               /\ ce[1].amount + ce[2].amount + ce[3].amount = DrainTotal
               /\ \A i \in 1..3 :
                     /\ ce[i].percentage.den > 0
                     /\ FracEq(ce[i].percentage, Frac(ce[i].amount * 100, DrainTotal))
               /\ FracEq(FracAdd(FracAdd(ce[1].percentage, ce[2].percentage),
                                 ce[3].percentage),
                         Frac(100, 1))

\* analyzeCashEaters of route.ts has returned on discounts, refunds and fees that
\* are all positive
C5_Witness ==
    /\ ReturnedFrom({"analyzeCashEaters"})
    /\ DrainTotal > 0
    /\ \A i \in DOMAIN CashEatersReturned : CashEatersReturned[i].amount > 0

AllEmptyOrAbsent == \A k \in Keys : GetOrEmpty(data, k) = <<>>

SomeEmptyOrAbsent == \E k \in Keys : GetOrEmpty(data, k) = <<>>

ZeroSnapshot ==
    [totalTransactions |-> 0, itemsSold |-> 0, grossSales |-> 0, discounts |-> 0,
     cardSales |-> 0, cashSales |-> 0, processorFees |-> 0, refunds |-> 0]

\* C6 as claimed: on a dataset with an empty or absent collection every analyzer
\* returns without raising, and on one whose collections are all empty or absent
\* the snapshot is all 0, the low-margin list empty and the reorder plan empty.
C6_EmptyDatasetHandled ==
    Done /\ (IsSnapshotCall \/ IsCashEatersCall \/ IsReorderCall) /\ SomeEmptyOrAbsent
        => /\ result.status = "returned"
           /\ AllEmptyOrAbsent
                => /\ IsSnapshotCall => result.value = ZeroSnapshot
                   /\ IsCashEatersCall => LowMarginReturned = <<>>
                   /\ IsReorderCall => result.value = <<>>

\* C6 holds of the three analyzers of route.ts
C6_RouteEmptyDatasetHandled ==
    Done /\ called \in {"calculateSnapshot", "analyzeCashEaters", "generateReorderPlan"}
      /\ SomeEmptyOrAbsent
        => /\ result.status = "returned"
           /\ AllEmptyOrAbsent
                => /\ IsSnapshotCall => result.value = ZeroSnapshot
                   /\ IsCashEatersCall => LowMarginReturned = <<>>
                   /\ IsReorderCall => result.value = <<>>

\* C7 as claimed: the low-margin list has at most 5 entries, is in non-decreasing
\* margin_pct, and holds only products of revenue > 0.
C7_LowMarginList ==
    ReturnedFrom({"analyzeCashEaters", "lib_analyzeCashEaters"})
        => LET lm == LowMarginReturned
           IN  /\ Len(lm) <= 5
               /\ \A i \in 1..(Len(lm) - 1) :
                     ~FracLess(lm[i + 1].margin_pct, lm[i].margin_pct)
               /\ \A i \in DOMAIN lm : lm[i].revenue > 0

\* C7 holds of the analyzeCashEaters of route.ts
C7_RouteLowMarginList ==
    ReturnedFrom({"analyzeCashEaters"})
        => LET lm == LowMarginReturned
           IN  /\ Len(lm) <= 5
               /\ \A i \in 1..(Len(lm) - 1) :
                     ~FracLess(lm[i + 1].margin_pct, lm[i].margin_pct)
               /\ \A i \in DOMAIN lm : lm[i].revenue > 0

\* route.ts returned 5 of more than 5 products of positive revenue
C7_RouteWitness ==
    /\ ReturnedFrom({"analyzeCashEaters"})
    /\ Len(LowMarginReturned) = 5
    /\ Cardinality({i \in DOMAIN Transactions : Transactions[i].net_sales > 0}) > 5
    /\ \E i \in 1..4 : FracLess(LowMarginReturned[i].margin_pct,
                                LowMarginReturned[i + 1].margin_pct)

\* C9: totalTransactions is the number of distinct transaction ids, so rows that
\* share an id count once, while itemsSold, grossSales and discounts add up
\* every row.
C9_DistinctTransactions ==
    ReturnedFrom({"calculateSnapshot", "calculateExecutiveSnapshot"})
        => LET tx == Transactions
               s  == result.value
               ids == {tx[i].transaction_id : i \in DOMAIN tx}
           IN  /\ s.totalTransactions = Cardinality(ids)
               /\ (\E i, j \in DOMAIN tx : i # j /\ tx[i].transaction_id = tx[j].transaction_id)
                     => s.totalTransactions < Len(tx)
               /\ s.itemsSold = Total(tx, "quantity")
               /\ s.grossSales = Total(tx, "gross_sales")
               /\ s.discounts = Total(tx, "discount")

\* a snapshot of three line items of one transaction
C9_Witness ==
    /\ ReturnedFrom({"calculateSnapshot"})
    /\ Len(Transactions) = 3
    /\ result.value.totalTransactions = 1
    /\ result.value.itemsSold > 3

IsCardOrCash(t) == t.payment_type \in {"card", "cash"}

\* C10: cardSales + cashSales is the net_sales of exactly the card and cash rows;
\* a row of another or no payment_type adds to neither, and still adds to
\* grossSales, discounts and itemsSold.
C10_CardAndCashSales ==
    ReturnedFrom({"calculateSnapshot", "calculateExecutiveSnapshot"})
        => LET tx == Transactions
               s  == result.value
           IN  /\ s.cardSales + s.cashSales = Total(SelectSeq(tx, IsCardOrCash), "net_sales")
               /\ s.cardSales = Total(SelectSeq(tx, LAMBDA t : t.payment_type = "card"),
                                      "net_sales")
               /\ s.cashSales = Total(SelectSeq(tx, LAMBDA t : t.payment_type = "cash"),
                                      "net_sales")
               /\ s.grossSales = Total(tx, "gross_sales")
               /\ s.discounts = Total(tx, "discount")
               /\ s.itemsSold = Total(tx, "quantity")

\* a snapshot of a card row, a voucher row and a row without payment_type
C10_Witness ==
    /\ ReturnedFrom({"calculateSnapshot"})
    /\ \E i, j, k \in DOMAIN Transactions :
          /\ Transactions[i].payment_type = "voucher"
          /\ Transactions[j].payment_type = Null
          /\ Transactions[k].payment_type = "card"
    /\ result.value.cardSales > 0
    /\ result.value.cardSales + result.value.cashSales < Total(Transactions, "net_sales")

\* the place of a category in the order analyzeCashEaters declares its entries
DeclarationOrder(category) ==
    CASE category = "Discounts"      -> 1
      [] category = "Refunds"        -> 2
      [] category = "Processor fees" -> 3
      [] OTHER                       -> 0

\* C11: analyzeCashEaters always returns exactly three entries, one each for
\* Discounts, Refunds and Processor fees, ordered by non-increasing amount, and
\* entries of equal amount keep their declaration order.
C11_ThreeEntriesByAmount ==
    /\ (Done /\ called = "analyzeCashEaters") => result.status = "returned"
    /\ ReturnedFrom({"analyzeCashEaters", "lib_analyzeCashEaters"}) =>
          /\ Len(CashEatersReturned) = 3
          /\ {CashEatersReturned[i].category : i \in 1..3}
                = {"Discounts", "Refunds", "Processor fees"}
          /\ \A i \in 1..2 :
                LET a == CashEatersReturned[i]
                    b == CashEatersReturned[i + 1]
                IN  /\ a.amount >= b.amount
                    /\ a.amount = b.amount =>
                          DeclarationOrder(a.category) < DeclarationOrder(b.category)

\* C11 witness: the fees entry, declared last, is returned first, and the two
\* entries behind it have equal amounts.
C11_Witness ==
    /\ ReturnedFrom({"analyzeCashEaters"})
    /\ CashEatersReturned[1].category = "Processor fees"
    /\ CashEatersReturned[1].amount > CashEatersReturned[2].amount
    /\ CashEatersReturned[2].amount = CashEatersReturned[3].amount

FacadeSucceeded == Done /\ called = "POST" /\ result.value.status = 200

\* the selector of the request in flight: analysisType when present, else question
RequestSelector ==
    IF request.analysisType # Null THEN request.analysisType ELSE request.question

\* C12: a successful facade result always carries the snapshot and only the
\* selected computation: "cash_eaters" sets cashEaters and lowMarginProducts and
\* no reorderPlan, "reorder" sets reorderPlan and neither cashEaters nor
\* lowMarginProducts, any other selector gives the snapshot alone.
C12_OnlySelectedComputation ==
    FacadeSucceeded =>
        LET body == result.value.body
            keys == DOMAIN body
        IN  /\ "snapshot" \in keys
            /\ body["snapshot"] = calculateSnapshot(data).value
            /\ RequestSelector = "cash_eaters" =>
                 /\ {"cashEaters", "lowMarginProducts"} \subseteq keys
                 /\ "reorderPlan" \notin keys
                 /\ body["cashEaters"] = analyzeCashEaters(data).value.cashEaters
                 /\ body["lowMarginProducts"]
                      = analyzeCashEaters(data).value.lowMarginProducts
            /\ RequestSelector = "reorder" =>
                 /\ "reorderPlan" \in keys
                 /\ "cashEaters" \notin keys
                 /\ "lowMarginProducts" \notin keys
            /\ RequestSelector \notin {"cash_eaters", "reorder"} => keys = {"snapshot"}

\* C12 witness: a request carrying both selectors, analysisType "reorder" and
\* question "cash_eaters", answered with a non-empty plan and no cash eaters.
C12_Witness ==
    /\ FacadeSucceeded
    /\ request.analysisType = "reorder"
    /\ request.question = "cash_eaters"
    /\ result.value.body["reorderPlan"] # <<>>
    /\ "cashEaters" \notin DOMAIN result.value.body

NumericKeys == {"snapshot", "cashEaters", "lowMarginProducts", "reorderPlan"}

\* the numeric part of a response body
Numeric(body) == [k \in NumericKeys \cap DOMAIN body |-> body[k]]

\* what the handler in flight answers to the same request when the AI service
\* behaves as outcome says
ResponseUnder(outcome) ==
    IF called = "POST" THEN {POST(request, budget, Files, outcome)}
    ELSE {legacy_POST(request, Files, outcome, py) : py \in PythonResults}

\* C13 as claimed: whatever the AI service does (ok, error status, connection
\* failure) a request that reaches it succeeds with the same snapshot,
\* cashEaters, lowMarginProducts and reorderPlan; only aiInsights may differ.
C13_NumericResultIndependentOfAI ==
    Done /\ called \in {"POST", "legacy_POST"} /\ ai \in Outcomes =>
        /\ result.value.status = 200
        /\ \A o \in Outcomes : \A r \in ResponseUnder(o) :
              /\ r.status = 200
              /\ Numeric(r.body) = Numeric(result.value.body)

\* the handler of route.ts does what C13 claims
C13_RouteNumericResultIndependentOfAI ==
    Done /\ called = "POST" /\ ai \in Outcomes =>
        /\ result.value.status = 200
        /\ \A o \in Outcomes : \A r \in ResponseUnder(o) :
              /\ r.status = 200
              /\ Numeric(r.body) = Numeric(result.value.body)
              /\ \A k \in (DOMAIN r.body \cup DOMAIN result.value.body)
                            \ (NumericKeys \cup {"aiInsights", "message"}) : FALSE

\* a provided file that is empty or lacks one of its required columns
FailsValidation(key) ==
    /\ request[key] # <<>>
    /\ \/ request[key][1].len = 0
       \/ ~(REQUIRED_COLUMNS[key] \subseteq request[key][1].headers)

IsUpload == Done /\ called \in {"upload_POST", "validating_upload_POST"}

\* C14 as claimed: an upload with a provided file that is empty or lacks a
\* required column is answered 400, writes no session file and returns no
\* sessionId; a session is created only when every provided file passes.
C14_InvalidUploadRejected ==
    IsUpload /\ (\E key \in Keys : FailsValidation(key)) =>
        /\ result.value.status = 400
        /\ result.value.written = <<>>
        /\ "sessionId" \notin DOMAIN result.value.body

\* the validating handler does what C14 claims
C14_ValidatingHandlerRejects ==
    Done /\ called = "validating_upload_POST" =>
        /\ (\E key \in Keys : FailsValidation(key)) =>
              /\ result.value.status = 400
              /\ result.value.written = <<>>
              /\ "sessionId" \notin DOMAIN result.value.body
        /\ result.value.written # <<>> =>
              /\ result.value.status = 200
              /\ \A key \in Keys : ~FailsValidation(key)

\* a row that names its product: product_id and product_name are both present
Attributable(t) == t.product_id # Null /\ t.product_name # Null

\* the sum of field f over the attributable rows of product id
RECURSIVE AttributedTotal(_, _, _)
AttributedTotal(tx, id, f) ==
    IF tx = <<>> THEN 0
    ELSE (IF Attributable(tx[1]) /\ tx[1].product_id = id THEN tx[1][f] ELSE 0)
           + AttributedTotal(Tail(tx), id, f)

\* the low-margin list is made of the attributable rows alone
GroupsOnlyAttributable(lm) ==
    \A i \in DOMAIN lm :
        /\ lm[i].product_id # Null
        /\ lm[i].product_name # Null
        /\ lm[i].revenue = AttributedTotal(Transactions, lm[i].product_id, "net_sales")
        /\ lm[i].gross_profit
             = AttributedTotal(Transactions, lm[i].product_id, "gross_profit")

\* every row, attributable or not, is in the dataset-wide sums
EveryRowInSums ==
    /\ ReturnedFrom({"analyzeCashEaters", "lib_analyzeCashEaters"}) =>
          \E i \in DOMAIN CashEatersReturned :
              /\ CashEatersReturned[i].category = "Discounts"
              /\ CashEatersReturned[i].amount = Total(Transactions, "discount")
    /\ ReturnedFrom({"calculateSnapshot", "calculateExecutiveSnapshot"}) =>
          /\ result.value.itemsSold = Total(Transactions, "quantity")
          /\ result.value.grossSales = Total(Transactions, "gross_sales")
          /\ result.value.discounts = Total(Transactions, "discount")
          /\ result.value.cardSales + result.value.cashSales
               = Total(SelectSeq(Transactions, IsCardOrCash), "net_sales")

\* C15 as claimed: a row with a missing product_id or product_name forms no
\* low-margin group and adds to none, yet its quantity, gross_sales, discount
\* and net_sales are in the snapshot sums and its discount in the Discounts amount.
C15_UnattributableRowSkipped ==
    /\ ReturnedFrom({"analyzeCashEaters", "lib_analyzeCashEaters"}) =>
          GroupsOnlyAttributable(LowMarginReturned)
    /\ EveryRowInSums

\* the analyzeCashEaters of route.ts does what C15 claims
C15_RouteUnattributableRowSkipped ==
    /\ ReturnedFrom({"analyzeCashEaters"}) => GroupsOnlyAttributable(LowMarginReturned)
    /\ EveryRowInSums

\* route.ts skipped rows without product_id and without product_name next to a
\* product it reports
C15_RouteWitness ==
    /\ ReturnedFrom({"analyzeCashEaters"})
    /\ \E i, j \in DOMAIN Transactions :
          Transactions[i].product_id = Null /\ Transactions[j].product_name = Null
    /\ Len(LowMarginReturned) = 1
    /\ Total(Transactions, "discount") = 1500

\* the product ids of the attributable rows
AttributableIds ==
    {Transactions[i].product_id : i \in {j \in DOMAIN Transactions :
                                            Attributable(Transactions[j])}}

\* C16 as claimed: generateReorderPlan leaves a row with a missing product_id or
\* product_name out of its product aggregates: there is one group per product
\* id of the attributable rows, and every item of the plan is of such a product.
C16_ReorderSkipsUnattributableRow ==
    ReturnedFrom({"generateReorderPlan", "lib_generateReorderPlan"}) =>
        /\ Len(ranked) = Cardinality(AttributableIds)
        /\ \A i \in DOMAIN result.value :
              \E j \in DOMAIN Transactions :
                  /\ Attributable(Transactions[j])
                  /\ Transactions[j].product_name = result.value[i].product_name

\* the rows analyzeCashEaters groups under product id: route.ts groups the
\* attributable rows, lib/analysis.ts every row
GroupedRows(id) ==
    {i \in DOMAIN Transactions :
        /\ Transactions[i].product_id = id
        /\ called = "analyzeCashEaters" => Attributable(Transactions[i])}

FirstRowOf(id) == CHOOSE i \in GroupedRows(id) : \A j \in GroupedRows(id) : i <= j

\* C17 as claimed: the product_name a low-margin entry reports is the name on the
\* first row of its product_id, whatever names the later rows of that id carry.
C17_FirstNameKept ==
    ReturnedFrom({"analyzeCashEaters", "lib_analyzeCashEaters"}) =>
        \A i \in DOMAIN LowMarginReturned :
            LowMarginReturned[i].product_name
              = Transactions[FirstRowOf(LowMarginReturned[i].product_id)].product_name

\* the list is in (margin_pct ascending, revenue ascending) order
ByMarginThenRevenue(lm) ==
    \A i \in 1..(Len(lm) - 1) :
        /\ ~FracLess(lm[i + 1].margin_pct, lm[i].margin_pct)
        /\ FracEq(lm[i].margin_pct, lm[i + 1].margin_pct) =>
              lm[i].revenue <= lm[i + 1].revenue

\* C18 as claimed: among low-margin products of equal margin_pct the one of
\* lower revenue comes first, whatever the order of the rows in the dataset.
C18_EqualMarginByRevenue ==
    ReturnedFrom({"analyzeCashEaters", "lib_analyzeCashEaters"}) =>
        ByMarginThenRevenue(LowMarginReturned)

\* the analyzeCashEaters of lib/analysis.ts breaks margin ties by revenue
C18_LibEqualMarginByRevenue ==
    ReturnedFrom({"lib_analyzeCashEaters"}) => ByMarginThenRevenue(LowMarginReturned)

\* the place in the ranking of the product group an item is of; the product
\* groups of the model's datasets have distinct names
RankOf(name) == CHOOSE j \in DOMAIN ranked : ranked[j].product_name = name

\* the plan is in (gp_per_day descending, qty_per_day descending) order, one
\* item per product group at most
InVelocityOrder(p) ==
    \A i, j \in DOMAIN p :
        i < j =>
            LET a == ranked[RankOf(p[i].product_name)]
                b == ranked[RankOf(p[j].product_name)]
            IN  /\ p[i].product_name # p[j].product_name
                /\ ~FracLess(a.gp_per_day, b.gp_per_day)
                /\ FracEq(a.gp_per_day, b.gp_per_day) =>
                      ~FracLess(a.qty_per_day, b.qty_per_day)

\* C19 as claimed: the items of the plan are in profit-velocity rank order,
\* gp_per_day descending and qty_per_day descending among equal gp_per_day, and
\* each product group gives at most one item.
C19_PlanInVelocityOrder ==
    ReturnedFrom({"generateReorderPlan", "lib_generateReorderPlan"}) =>
        InVelocityOrder(result.value)

\* the generateReorderPlan of lib/analysis.ts breaks gp_per_day ties by qty_per_day
C19_LibPlanInVelocityOrder ==
    ReturnedFrom({"lib_generateReorderPlan"}) => InVelocityOrder(result.value)

\* the product the walk visits next
Visited == ranked[idx + 1]

\* min(max(1, ceil(qty_per_day * 5)), floor(remaining / cogs)) for the visited
\* product, with what remains of the budget before the step
QuantityAsClaimed ==
    LET q      == Visited.qty_per_day
        ceil5  == -((-(q.num * 5)) \div q.den)
        target == IF ceil5 > 1 THEN ceil5 ELSE 1
        afford == remaining \div Visited.cogs
    IN  IF target < afford THEN target ELSE afford

\* one step of the walk over a product of positive unit cost: an item of the
\* claimed quantity when that quantity is at least 1, nothing otherwise;
\* exact: budget_spend is the product itself, else the product rounded to cents
StepAsClaimed(exact) ==
    (pc = "walk" /\ idx' = idx + 1 /\ Visited.cogs > 0) =>
        IF QuantityAsClaimed >= 1
        THEN /\ Len(plan') = Len(plan) + 1
             /\ SubSeq(plan', 1, Len(plan)) = plan
             /\ LET item == plan'[Len(plan')]
                    cost == QuantityAsClaimed * Visited.cogs
                IN  /\ item.product_name = Visited.product_name
                    /\ item.suggested_qty = QuantityAsClaimed
                    /\ item.suggested_qty >= 1
                    /\ IF exact THEN item.budget_spend = cost
                       ELSE /\ item.budget_spend % 10 = 0
                            /\ item.budget_spend - cost <= 5
                            /\ cost - item.budget_spend <= 5
             /\ remaining' = remaining - QuantityAsClaimed * Visited.cogs
        ELSE /\ plan' = plan
             /\ remaining' = remaining

\* C20 as claimed: every item emitted has suggested_qty = min(max(1,
\* ceil(qty_per_day * 5)), floor(remaining / cogs)) >= 1 for the budget remaining
\* at that point and budget_spend = suggested_qty * cogs; a product whose
\* quantity is 0 emits no item and leaves remaining unchanged.
C20_ItemAsClaimed == [][StepAsClaimed(TRUE)]_vars

\* C20 amended: the same, with budget_spend = suggested_qty * cogs rounded to
\* 2 decimals, and remaining reduced by the unrounded suggested_qty * cogs.
C20_ItemWithRoundedSpend == [][StepAsClaimed(FALSE)]_vars

\* C20 witness: the first product visited costs more than the budget and emits
\* nothing, the second is bought in fewer units than its target.
C20_Witness ==
    /\ ReturnedFrom({"generateReorderPlan", "lib_generateReorderPlan"})
    /\ Len(ranked) = 2
    /\ ranked[1].cogs > budget[1]
    /\ Len(plan) = 1
    /\ plan[1].product_name = ranked[2].product_name
    /\ plan[1].suggested_qty >= 1
    /\ plan[1].suggested_qty * ranked[2].cogs + remaining = budget[1]
    /\ plan[1].suggested_qty < TargetUnits(ranked[2])

\* the product ids whose unit cost, the cogs of their last row, is not positive
UnpricedIds ==
    {Transactions[i].product_id : i \in {j \in DOMAIN Transactions :
        /\ Transactions[j].cogs <= 0
        /\ \A k \in DOMAIN Transactions :
              Transactions[k].product_id = Transactions[j].product_id => k <= j}}

\* the dataset without the rows of the unpriced products
PricedOnly ==
    [k \in DOMAIN data |->
        IF k = "transactions"
        THEN SelectSeq(data[k], LAMBDA t : t.product_id \notin UnpricedIds)
        ELSE data[k]]

\* the plan of the call in flight on dataset d
PlanOn(d) ==
    IF called = "generateReorderPlan" THEN generateReorderPlan(d, budget[1])
    ELSE lib_generateReorderPlan(d, budget[1])

\* the ranking without its products of no positive unit cost
PricedRanked == SelectSeq(ranked, LAMBDA p : p.cogs > 0)

\* C21 as claimed: a product of cogs <= 0 is never in the plan and never changes
\* the remaining budget, and its presence in the dataset does not change the
\* items emitted for the other products.
C21_UnpricedProductInert ==
    ReturnedFrom({"generateReorderPlan", "lib_generateReorderPlan"}) =>
        /\ \A i \in DOMAIN plan : \A j \in DOMAIN ranked :
              ranked[j].product_name = plan[i].product_name => ranked[j].cogs > 0
        /\ result = PlanOn(PricedOnly)

\* C21 amended: a product of cogs <= 0 is never in the plan and never changes the
\* remaining budget, and the walk over the same ranking without it emits the
\* same items and leaves the same remaining budget.
C21_UnpricedProductSkipped ==
    ReturnedFrom({"generateReorderPlan", "lib_generateReorderPlan"}) =>
        /\ \A i \in DOMAIN plan : \A j \in DOMAIN ranked :
              ranked[j].product_name = plan[i].product_name => ranked[j].cogs > 0
        /\ Walk(PricedRanked, NewWalk(budget[1])).plan = result.value
        /\ Walk(PricedRanked, NewWalk(budget[1])).remaining = remaining

\* C21 witness: an unpriced product is ranked first, ahead of a product that is
\* bought.
C21_Witness ==
    /\ ReturnedFrom({"generateReorderPlan"})
    /\ Len(ranked) = 2
    /\ ranked[1].cogs <= 0
    /\ Len(plan) = 1
    /\ plan[1].product_name = ranked[2].product_name
    /\ remaining < budget[1]

\* the walk without its early stop: every product of the ranking is visited
RECURSIVE WalkToTheEnd(_, _)
WalkToTheEnd(rk, w) ==
    IF w.idx >= Len(rk) THEN w
    ELSE WalkToTheEnd(rk, [WalkStep(rk, w) EXCEPT !.stopped = FALSE])

\* the walk has stopped before the end of the ranking
StoppedEarly == IsReorderCall /\ pc \in {"return", "done"} /\ idx < Len(ranked)

\* C22: the early stop of the walk drops no purchase: when the walk breaks, every
\* product not yet visited would be bought in 0 units, and the plan is the plan
\* of the same walk without the early stop.
C22_EarlyStopDropsNothing ==
    /\ StoppedEarly =>
          \A j \in (idx + 1)..Len(ranked) :
              \/ ranked[j].cogs <= 0
              \/ remaining \div ranked[j].cogs = 0
    /\ ReturnedFrom({"generateReorderPlan", "lib_generateReorderPlan"}) =>
          result.value = WalkToTheEnd(ranked, NewWalk(budget[1])).plan

\* C22 witness: the walk bought the first product of three and broke there
C22_Witness ==
    /\ ReturnedFrom({"generateReorderPlan", "lib_generateReorderPlan"})
    /\ Len(ranked) = 3
    /\ idx = 1
    /\ Len(plan) = 1

\* an upload of a transactions file and a products file, both with every
\* required column, stored by the handler of app/api/upload/route.ts
StoredWithMaster ==
    /\ Done /\ called = "upload_POST"
    /\ result.value.written # <<>>
    /\ \A key \in {"transactions", "products"} :
          /\ request[key] # <<>>
          /\ REQUIRED_COLUMNS[key] \subseteq request[key][1].headers

UploadedRows(key) == ParsedRows(request[key][1])

\* the places in the Product Master of the product of transaction row t
MasterRowsOf(t) ==
    {j \in DOMAIN UploadedRows("products") :
        UploadedRows("products")[j]["product_id"] = t["product_id"]}

\* C23 as claimed: with transactions and products uploaded, every stored
\* transaction has gross_profit = net_sales - cogs * quantity, where cogs is the
\* Product Master's cogs of its product_id when the master has the product and
\* the transaction's own cogs otherwise.
C23_GrossProfitRecomputed ==
    StoredWithMaster =>
        \A i \in DOMAIN data["transactions"] :
            LET t      == UploadedRows("transactions")[i]
                stored == data["transactions"][i]
                cogs   == IF MasterRowsOf(t) # {}
                          THEN UploadedRows("products")[
                                   CHOOSE j \in MasterRowsOf(t) :
                                       \A k \in MasterRowsOf(t) : k <= j]["cogs"]
                          ELSE t["cogs"]
            IN  stored["gross_profit"] = t["net_sales"] - cogs * t["quantity"]

\* what the handler does for a product the master has: gross_profit is
\* recomputed from the master's cogs, overriding the value of the row
C23_RecomputedFromMaster ==
    StoredWithMaster =>
        \A i \in DOMAIN data["transactions"] :
            LET t      == UploadedRows("transactions")[i]
                stored == data["transactions"][i]
            IN  IF MasterRowsOf(t) # {}
                THEN /\ stored["cogs"] = UploadedRows("products")[1]["cogs"]
                     /\ stored["gross_profit"]
                          = t["net_sales"] - stored["cogs"] * t["quantity"]
                     /\ stored["gross_profit"] # t["gross_profit"]
                ELSE /\ stored["cogs"] = 0
                     /\ stored["gross_profit"] = t["net_sales"]

\* the rows that are the last of their product_id in the dataset
LastRows ==
    {i \in DOMAIN Transactions :
        \A k \in DOMAIN Transactions :
            Transactions[k].product_id = Transactions[i].product_id => k <= i}

\* generateReorderPlan has ranked the products of the dataset
HasRanked == IsReorderCall /\ pc \in {"walk", "return", "done"} /\ result.status # "threw"

\* C24: the unit cost of a product in generateReorderPlan is the cogs of the last
\* row of the product in the order of the dataset, not that of its first row
\* and not an average.
C24_UnitCostOfLastRow ==
    HasRanked =>
        /\ Len(ranked) = Cardinality(LastRows)
        /\ \A i \in LastRows : \E j \in DOMAIN ranked :
              /\ ranked[j].product_name = Transactions[i].product_name
              /\ ranked[j].cogs = Transactions[i].cogs

\* C24 witness: the rows of the one product carry unit costs 0.006 and then 2,
\* and the product is priced at 2 and bought at that price.
C24_Witness ==
    /\ ReturnedFrom({"generateReorderPlan"})
    /\ Len(Transactions) = 2
    /\ Transactions[1].product_id = Transactions[2].product_id
    /\ Transactions[1].cogs = 6
    /\ Transactions[2].cogs = 2000
    /\ Len(ranked) = 1
    /\ ranked[1].cogs = 2000
    /\ Len(plan) = 1
    /\ plan[1].budget_spend = plan[1].suggested_qty * 2000

\* the same two rows in the other order price the product at 0.006
C24_WitnessOtherOrder ==
    /\ ReturnedFrom({"generateReorderPlan"})
    /\ Len(Transactions) = 2
    /\ Transactions[1].product_id = Transactions[2].product_id
    /\ Transactions[1].cogs = 2000
    /\ Transactions[2].cogs = 6
    /\ ranked[1].cogs = 6
    /\ Len(plan) = 1

\* the days of the transactions of the dataset
DaySet == {Transactions[i].day : i \in DOMAIN Transactions}

\* max(day) - min(day) + 1 over the transactions, which are not none
WindowOfDays ==
    LET latest   == CHOOSE d \in DaySet : \A e \in DaySet : e <= d
        earliest == CHOOSE d \in DaySet : \A e \in DaySet : d <= e
    IN  latest - earliest + 1

\* C25 as claimed: the observation window days of generateReorderPlan is always
\* at least 1, never 0, negative or undefined.
C25_DaysAtLeastOne ==
    HasRanked => Days(Transactions).den = 1 /\ Days(Transactions).num >= 1

\* C25 amended: on a dataset with transactions days is max(day) - min(day) + 1,
\* at least 1 and equal to 1 when all rows are of one day, and it is the
\* divisor of every qty_per_day and gp_per_day; on a dataset without
\* transactions days is -Infinity and no product is ranked, so it divides nothing.
C25_DaysOfTransactions ==
    HasRanked =>
        IF Transactions = <<>>
        THEN ranked = <<>> /\ Days(Transactions).den = 0
        ELSE /\ WindowOfDays >= 1
             /\ Cardinality(DaySet) = 1 => WindowOfDays = 1
             /\ ranked # <<>>
             /\ \A j \in DOMAIN ranked :
                   /\ ranked[j].qty_per_day = Frac(ranked[j].qty, WindowOfDays)
                   /\ ranked[j].gp_per_day = Frac(ranked[j].gp, WindowOfDays)

\* C25 witness: rows of two days give a window of 2, rows of one day a window of
\* 1; here the two days
C25_Witness ==
    /\ ReturnedFrom({"generateReorderPlan", "lib_generateReorderPlan"})
    /\ Cardinality(DaySet) = 2
    /\ \A j \in DOMAIN ranked : ranked[j].qty_per_day.den = 2
    /\ plan # <<>>

\* the budget the facade hands to generateReorderPlan: the request's, or 500
\* when the request has none or has 0
PlannedBudget == IF budget = <<>> \/ budget = <<0>> THEN 500000 ELSE budget[1]

IsReorderResponse == FacadeSucceeded /\ RequestSelector = "reorder"

\* C26 as claimed: the message of a reorder result reports the budget the plan
\* was computed with, for every request, one without a budget included.
C26_MessageReportsPlannedBudget ==
    IsReorderResponse =>
        /\ result.value.body["reorderPlan"]
             = generateReorderPlan(data, PlannedBudget).value
        /\ result.value.body["message"].budget = <<PlannedBudget>>

\* what the facade does: the plan is computed with the planned budget and the
\* message carries the budget field of the request as it came
C26_MessageEchoesRequest ==
    IsReorderResponse =>
        /\ result.value.body["reorderPlan"]
             = generateReorderPlan(data, PlannedBudget).value
        /\ result.value.body["message"].budget = budget

\* a temp_data directory without any session file
NoFiles == <<>>

\* C27: the facade rejects a request before it touches stored data: without
\* sessionId the answer is 400 'Session ID required', with sessionId and without
\* analysisType and question it is 400, in both cases with no file read, no
\* analysis and no AI call; with both selectors present analysisType selects.
C27_RejectedBeforeData ==
    (Done /\ called = "POST") =>
        /\ request.sessionId = Null =>
              /\ result.value = Response(400, "error" :> "Session ID required")
              /\ ai = "none"
              /\ result.value = POST(request, budget, NoFiles, "none")
        /\ (request.sessionId # Null /\ request.analysisType = Null
              /\ request.question = Null) =>
              /\ result.value.status = 400
              /\ DOMAIN result.value.body = {"error"}
              /\ ai = "none"
              /\ result.value = POST(request, budget, NoFiles, "none")
        /\ (result.value.status = 200 /\ request.analysisType # Null
              /\ request.question # Null) =>
              /\ ("reorderPlan" \in DOMAIN result.value.body)
                    = (request.analysisType = "reorder")
              /\ ("cashEaters" \in DOMAIN result.value.body)
                    = (request.analysisType = "cash_eaters")

\* C27 witness: a request of an existing session without a selector, rejected
C27_Witness ==
    /\ Done /\ called = "POST"
    /\ request.sessionId = "s1"
    /\ request.analysisType = Null /\ request.question = Null
    /\ result.value.status = 400
    /\ ai = "none"

\* the uploads that have answered with a sessionId
Responded == {u \in Uploaders : uploads[u].response # <<>>}

\* C28 as claimed: under any interleaving of concurrent uploads each successful
\* upload returns a sessionId of its own, its session file is never overwritten
\* by another upload, and analysing the sessionId reads the data of the upload
\* that returned it.
C28_SessionsNeverShared ==
    /\ \A u, v \in Responded : u # v => uploads[u].response # uploads[v].response
    /\ \A u \in Responded : temp_data[uploads[u].response[1]] = u
    /\ \A u \in Responded : uploads[u].read # <<>> => uploads[u].read = <<u>>

\* what the handlers do guarantee: uploads stamped in different milliseconds
\* have sessions of their own
C28_DistinctMillisecondsDistinctSessions ==
    \A u, v \in Responded :
        (u # v /\ uploads[u].sessionId # uploads[v].sessionId) =>
            /\ temp_data[uploads[u].response[1]] = u
            /\ uploads[u].read # <<>> => uploads[u].read = <<u>>

\* C29 as claimed: the Dashboard's sessionId and hasData agree with the stored
\* 'cashflow_session_id': after a successful upload or connect both hold the
\* new session id, and after Clear Data the stored id is removed, hasData is
\* false and analysis is disabled.
C29_DashboardAgreesWithStored ==
    /\ dash # <<>> /\ dash.last \in {"upload", "connect"}
        => /\ localStorage = dash.sessionId
           /\ dash.hasData
    /\ dash # <<>> /\ dash.last = "clear"
        => /\ localStorage = Null
           /\ ~dash.hasData
           /\ ~AnalysisEnabled

\* what the code keeps: a connect stores the id it hands to the Dashboard, the
\* mount effect copies a stored id, and Clear Data removes the stored id
C29_ConnectAndMountAgree ==
    /\ dash # <<>> /\ dash.last \in {"connect", "mount"}
        => /\ localStorage = dash.sessionId
           /\ dash.hasData = (localStorage # Null)
    /\ dash # <<>> /\ dash.last = "clear" => localStorage = Null

\* a CSV upload hands the Dashboard an id that is not stored
C29_UploadNotStored ==
    /\ dash # <<>>
    /\ dash.last = "upload"
    /\ localStorage # dash.sessionId

\* analysis is still enabled after Clear Data
C29_ClearedButEnabled ==
    /\ dash # <<>>
    /\ dash.last = "clear"
    /\ AnalysisEnabled

\* C30 as claimed: once no snapshot request is in flight, the snapshot shown by
\* ExecutiveSnapshot is the one computed for the current sessionId, whatever
\* order the responses arrived in (here: every response carried its snapshot).
C30_SettledSnapshotIsCurrent ==
    view # <<>> /\ view.pending = <<>> /\ ~view.failed
        => view.snapshot = view.sessionId

\* the same when a fetch may also end without a snapshot: the snapshot shown,
\* if any, is the one of the current sessionId
C30_NoOldSnapshotRemains ==
    view # <<>> /\ view.pending = <<>> /\ view.snapshot # Null
        => view.snapshot = view.sessionId

\* what the code keeps: the loading placeholder is shown only until the first
\* response, while no snapshot has been set
C30_LoadingUntilFirstResponse ==
    view # <<>> /\ view.loading
        => /\ view.snapshot = Null
           /\ view.pending # <<>>

\* no request is in flight and the snapshot shown is the one of an old session
C30_StaleSnapshotShown ==
    /\ view # <<>>
    /\ view.pending = <<>>
    /\ ~view.failed
    /\ view.snapshot \notin {Null, view.sessionId}

====
